---- MODULE Spec2Model ----
(***************************************************************************)
(* The rotating append writer of app/main.go: rotateLog, writeLog and the  *)
(* generateLogs / main loop that drives them, over a small file system.   *)
(*                                                                         *)
(* A file name is an index: 0 is logFile, k >= 1 is logFile.k.  A file is  *)
(* a record [ex, data]; data is the sequence of chunks written to it, one  *)
(* chunk per file.Write: [id, sz, nl] = which record, how many bytes of it *)
(* reached the file, and whether its closing newline did.                  *)
(***************************************************************************)
EXTENDS Integers, Sequences, FiniteSets, TLC

\* ---- bounds of the model ------------------------------------------------
MaxWrites == 3      \* writeLog calls in one behaviour of one process
MaxRaceWrites == 2  \* writeLog calls in one behaviour of two processes
MaxRec == 2         \* largest serialized record, newline included (bytes)
MaxRetain == 2      \* largest retention count tried for maxFiles
MaxThreshold == 2   \* largest threshold tried for maxSize (bytes)

Writers == {1, 2}
RecSizes == {1, MaxRec}   \* the smallest and the largest record
TopIdx == MaxRetain + 1
Idx == 0..TopIdx
Rotated == 1..TopIdx
logFile == 0

VARIABLES
    maxSize,    \* var maxSize: rotation threshold in bytes
    maxFiles,   \* var maxFiles: retention count
    fs,         \* the directory: Idx -> file
    running,    \* the processes started on this logFile
    faults,     \* the kinds of I/O failure the environment may produce
    start,      \* the directory before the first call (never changes)
    pc,         \* per process: where it is in main/generateLogs/writeLog/rotateLog
    site,       \* per process: which writeLog call of generateLogs comes next
    i,          \* per process: rotateLog's loop variable
    entry,      \* per process: the record of the call in progress
    fd,         \* per process: the file its open handle refers to
    call,       \* per process: what the current (or last) writeLog call did
    nrec        \* records handed to writeLog so far

vars == <<maxSize, maxFiles, fs, running, faults, start, pc, site, i, entry, fd, call, nrec>>

NoFile == [ex |-> FALSE, data |-> <<>>]
EmptyFile == [ex |-> TRUE, data |-> <<>>]
Closed == -1
Unlinked == -2

RECURSIVE SumSz(_)
SumSz(s) == IF s = <<>> THEN 0 ELSE Head(s).sz + SumSz(Tail(s))

\* info.Size()
Size(f) == SumSz(f.data)

\* ---- the file system calls the program makes ---------------------------

\* What one injected failure may be: a call of this kind either works (TRUE)
\* or, when the environment produces that kind of failure, fails (FALSE).
Outcomes(kind) == IF kind \in faults THEN {TRUE, FALSE} ELSE {TRUE}

\* (variant: the file is copied, the old name stays)
Rename_copy(fsys, old, new, ok) ==
    IF ok /\ fsys[old].ex THEN [fsys EXCEPT ![new] = fsys[old]] ELSE fsys

\* os.Rename(old, new): new is replaced by old, old is gone.  It fails, and
\* changes nothing, when old does not exist or when the environment refuses.
Rename(fsys, old, new, ok) ==
    IF ok /\ fsys[old].ex
    THEN [fsys EXCEPT ![new] = fsys[old], ![old] = NoFile]
    ELSE fsys

\* An open handle follows its file through a rename; the handle of a file
\* that a rename replaced refers to a file no name reaches any more.
FdAfterRename(f, fsys, old, new, ok) ==
    IF ~(ok /\ fsys[old].ex) THEN f
    ELSE IF f = old THEN new
    ELSE IF f = new THEN Unlinked
    ELSE f

\* os.OpenFile(logFile, O_APPEND|O_CREATE|O_WRONLY): creates it if absent.
OpenFile(fsys) ==
    IF fsys[logFile].ex THEN fsys ELSE [fsys EXCEPT ![logFile] = EmptyFile]

\* What file.Write may leave in the file: the whole line; or, when the write
\* fails, nothing or a proper prefix of the line (without its newline).
WriteResults(e) ==
    {<<[id |-> e.id, sz |-> e.sz, nl |-> TRUE]>>}
    \cup (IF "write" \in faults
          THEN {<<>>} \cup {<<[id |-> e.id, sz |-> n, nl |-> FALSE]>> : n \in 1..(e.sz - 1)}
          ELSE {})

\* (variant: the bytes are put in front)
AppendBytes_front(data, chunk) == chunk \o data

\* O_APPEND: the bytes go to the end of the file the handle refers to.
AppendBytes(data, chunk) == data \o chunk

Write(fsys, f, chunk) ==
    IF f \in Idx
    THEN [fsys EXCEPT ![f] = [ex |-> TRUE, data |-> AppendBytes(fsys[f].data, chunk)]]
    ELSE fsys

\* ---- rotateLog ------------------------------------------------------------

\* (variants: the comparison made strict; the size not looked at)
NeedsRotation_strict(f) == f.ex /\ Size(f) > maxSize
NeedsRotation_anySize(f) == f.ex

\* line 46: err != nil || info.Size() < maxSize  means no rotation
NeedsRotation(f) == f.ex /\ ~(Size(f) < maxSize)

\* (variant: the loop started one index too high)
ShiftStart_high == maxFiles

\* line 51: i := maxFiles - 1
ShiftStart == maxFiles - 1

\* (variant: a failed rename ends the process, as a failed open does)
AfterRename_fatal(ok, next) == IF ok THEN next ELSE "exit"

\* lines 54 and 58: the error os.Rename returns is dropped, so the process
\* goes on whatever the outcome.
AfterRename(ok, next) == next

\* line 51: i > 0
ShiftCond(n) == n > 0

\* ---- the record of one writeLog call (history, not program state) --------
NoCall ==
    [pre |-> start, seen |-> NoFile, rotate |-> FALSE, moved |-> {}, failed |-> {}, movedSz |-> -1,
     opened |-> "no", wrote |-> "no", after |-> start]

\* ---- initial states -------------------------------------------------------

\* A file that was there before the program started: one chunk of old content.
OldFile(k, n) ==
    [ex |-> TRUE,
     data |-> IF n = 0 THEN <<>> ELSE <<[id |-> 0 - (k + 1), sz |-> n, nl |-> TRUE]>>]

\* The directory the program finds: logFile missing, or just below, at or
\* just above the threshold, and the rotated files logFile.1 .. logFile.n left
\* by earlier runs (each was at the threshold when it was moved aside): none,
\* as many as are retained, or one more than any setting retains.
Dirs ==
    {[k \in Idx |-> IF k = logFile THEN f
                    ELSE IF k <= n THEN OldFile(k, maxSize) ELSE NoFile] :
        f \in {NoFile} \cup {OldFile(logFile, m) : m \in (maxSize - 1)..(maxSize + 1)},
        n \in {0, IF maxFiles >= 1 THEN maxFiles ELSE 1, TopIdx}}

\* lines 37-38: the two rotation settings, here any small values.
InitConfig ==
    /\ maxSize \in 1..MaxThreshold
    /\ maxFiles \in (0 - 1)..MaxRetain

\* Every process is at the top of main's loop, before its first generateLogs.
InitProcs ==
    /\ pc = [p \in Writers |-> IF p \in running THEN "gen" ELSE "off"]
    /\ site = [p \in Writers |-> 1]
    /\ i = [p \in Writers |-> 0]
    /\ entry = [p \in Writers |-> [id |-> 0, sz |-> 0]]
    /\ fd = [p \in Writers |-> Closed]
    /\ call = [p \in Writers |-> NoCall]
    /\ nrec = 0

\* One process (the program as deployed), any directory, any I/O failure.
Init ==
    /\ running = {1}
    /\ faults \in {{}, {"rename"}, {"open", "write"}}
    /\ InitConfig
    /\ fs \in Dirs
    /\ start = fs
    /\ InitProcs

\* Two copies of the program started on the same logFile (or one, to compare),
\* no I/O failure, no rotated file yet.
InitRace ==
    /\ running \in {{1}, {1, 2}}
    /\ faults = {}
    /\ InitConfig
    /\ fs \in {d \in Dirs : \A k \in Rotated : ~d[k].ex}
    /\ start = fs
    /\ InitProcs

\* The model stops handing out records after this many calls.
CallLimit == IF running = {1} THEN MaxWrites ELSE MaxRaceWrites

\* ---- the program ----------------------------------------------------------

\* generateLogs lines 92, 108/116/124, 135: the next writeLog(entry) call.
generateLogs(p) ==
    /\ pc[p] = "gen"
    /\ nrec < CallLimit
    /\ \E n \in RecSizes :
        /\ entry' = [entry EXCEPT ![p] = [id |-> nrec + 1, sz |-> n]]
    /\ nrec' = nrec + 1
    /\ call' = [call EXCEPT ![p] = [NoCall EXCEPT !.pre = fs, !.after = fs]]
    /\ pc' = [pc EXCEPT ![p] = "stat"]
    /\ UNCHANGED <<maxSize, maxFiles, fs, running, faults, start, site, i, fd>>

\* rotateLog lines 45-48 and the loop's initialisation.
rotateLog(p) ==
    /\ pc[p] = "stat"
    /\ IF NeedsRotation(fs[logFile])
       THEN /\ i' = [i EXCEPT ![p] = ShiftStart]
            /\ pc' = [pc EXCEPT ![p] = IF ShiftCond(ShiftStart) THEN "shift" ELSE "move"]
            /\ call' = [call EXCEPT ![p].rotate = TRUE, ![p].seen = fs[logFile]]
       ELSE /\ pc' = [pc EXCEPT ![p] = "open"]
            /\ call' = [call EXCEPT ![p].seen = fs[logFile]]
            /\ UNCHANGED i
    /\ UNCHANGED <<maxSize, maxFiles, fs, running, faults, start, site, entry, fd, nrec>>

\* rotateLog lines 51-55: one iteration, os.Rename(logFile.i, logFile.(i+1)).
rotateLogShift(p) ==
    /\ pc[p] = "shift"
    /\ \E ok \in Outcomes("rename") :
        /\ fs' = Rename(fs, i[p], i[p] + 1, ok)
        /\ fd' = [q \in Writers |-> FdAfterRename(fd[q], fs, i[p], i[p] + 1, ok)]
        /\ call' = [call EXCEPT
                ![p].moved = IF ok /\ fs[i[p]].ex THEN @ \cup {i[p]} ELSE @,
                ![p].failed = IF ok THEN @ ELSE @ \cup {i[p]}]
        /\ pc' = [pc EXCEPT ![p] =
                AfterRename(ok, IF ShiftCond(i[p] - 1) THEN "shift" ELSE "move")]
    /\ i' = [i EXCEPT ![p] = @ - 1]
    /\ UNCHANGED <<maxSize, maxFiles, running, faults, start, site, entry, nrec>>

\* rotateLog line 58: os.Rename(logFile, logFile+".1"), then return.
rotateLogMove(p) ==
    /\ pc[p] = "move"
    /\ \E ok \in Outcomes("rename") :
        /\ fs' = Rename(fs, logFile, 1, ok)
        /\ fd' = [q \in Writers |-> FdAfterRename(fd[q], fs, logFile, 1, ok)]
        /\ call' = [call EXCEPT
                ![p].moved = IF ok /\ fs[logFile].ex THEN @ \cup {logFile} ELSE @,
                ![p].failed = IF ok THEN @ ELSE @ \cup {logFile},
                ![p].movedSz = IF ok /\ fs[logFile].ex THEN Size(fs[logFile]) ELSE @,
                ![p].after = fs']
        /\ pc' = [pc EXCEPT ![p] = AfterRename(ok, "open")]
    /\ UNCHANGED <<maxSize, maxFiles, running, faults, start, site, i, entry, nrec>>

\* writeLog lines 67-71: open for append, or log.Fatal.
writeLogOpen(p) ==
    /\ pc[p] = "open"
    /\ \E ok \in Outcomes("open") :
        IF ok
        THEN /\ fs' = OpenFile(fs)
             /\ fd' = [fd EXCEPT ![p] = logFile]
             /\ pc' = [pc EXCEPT ![p] = "write"]
             /\ call' = [call EXCEPT ![p].opened = "ok"]
        ELSE /\ pc' = [pc EXCEPT ![p] = "exit"]
             /\ call' = [call EXCEPT ![p].opened = "failed"]
             /\ UNCHANGED <<fs, fd>>
    /\ UNCHANGED <<maxSize, maxFiles, running, faults, start, site, i, entry, nrec>>

\* generateLogs: after the call at site s comes site s+1; the DEBUG record
\* (site 3) is optional, and after the last call main sleeps.
NextSites(s) == IF s = 1 THEN {2} ELSE IF s = 2 THEN {3, 0} ELSE {0}

\* writeLog lines 74-77: marshal, file.Write (its error is not looked at),
\* the deferred Close, and the return into generateLogs.
writeLogWrite(p) ==
    /\ pc[p] = "write"
    /\ \E chunk \in WriteResults(entry[p]) :
        /\ fs' = Write(fs, fd[p], chunk)
        /\ call' = [call EXCEPT ![p].wrote =
                IF chunk = <<>> THEN "nothing"
                ELSE IF chunk[1].nl THEN "ok" ELSE "short"]
    /\ fd' = [fd EXCEPT ![p] = Closed]
    /\ \E s \in NextSites(site[p]) :
        /\ site' = [site EXCEPT ![p] = s]
        /\ pc' = [pc EXCEPT ![p] = IF s = 0 THEN "sleep" ELSE "gen"]
    /\ UNCHANGED <<maxSize, maxFiles, running, faults, start, i, entry, nrec>>

\* main lines 150-153: time.Sleep, then the next generateLogs().
main(p) ==
    /\ pc[p] = "sleep"
    /\ pc' = [pc EXCEPT ![p] = "gen"]
    /\ site' = [site EXCEPT ![p] = 1]
    /\ UNCHANGED <<maxSize, maxFiles, fs, running, faults, start, i, entry, fd, call, nrec>>

Next ==
    \/ \E p \in running : generateLogs(p)
    \/ \E p \in running : rotateLog(p)
    \/ \E p \in running : rotateLogShift(p)
    \/ \E p \in running : rotateLogMove(p)
    \/ \E p \in running : writeLogOpen(p)
    \/ \E p \in running : writeLogWrite(p)
    \/ \E p \in running : main(p)

Spec == Init /\ [][Next]_vars

SpecRace == InitRace /\ [][Next]_vars

\* ---- what the claims speak of ---------------------------------------------

\* The line a complete write of process p's record leaves in the file.
Line(p) == [id |-> entry[p].id, sz |-> entry[p].sz, nl |-> TRUE]

\* The call of p has returned into generateLogs.
Returned(p) == pc[p] \in {"gen", "sleep"} /\ call[p].wrote # "no"

\* The call of p opened logFile and wrote its whole line.
Wrote(p) == Returned(p) /\ call[p].wrote = "ok"

\* rotateLog has just returned to writeLog.
RotateDone(p) == pc[p] = "open"

Ids(f) == {f.data[j].id : j \in 1..Len(f.data)}
RotatedFiles(fsys) == {k \in Rotated : fsys[k].ex}
AtThreshold(f) == f.ex /\ Size(f) >= maxSize

C2_ShiftAtRetention ==
    \A p \in running :
        (/\ RotateDone(p) /\ call[p].rotate /\ call[p].failed = {}
         /\ maxFiles >= 2
         /\ \A k \in 1..maxFiles : call[p].pre[k].ex)
        => /\ \A k \in 1..(maxFiles - 1) : fs[k + 1] = call[p].pre[k]
           /\ fs[1] = call[p].pre[logFile]
           /\ ~fs[logFile].ex
           /\ \A k \in Idx : k > maxFiles => fs[k] = call[p].pre[k]
           /\ \A k \in Idx : Ids(fs[k]) \cap Ids(call[p].pre[maxFiles]) = {}

C2_Witness ==
    \E p \in running :
        /\ RotateDone(p) /\ call[p].rotate /\ call[p].failed = {}
        /\ maxFiles >= 2
        /\ \A k \in 1..maxFiles : call[p].pre[k].ex
        /\ Ids(call[p].pre[maxFiles]) # {}
        /\ fs[maxFiles] = call[p].pre[maxFiles - 1]

\* C3: a writeLog call that finds logFile missing or below maxSize renames
\* nothing: every logFile.k is as before, and logFile is its old content (none
\* if it was missing) followed by the one new line.
C3_NoRotationBelowThreshold ==
    \A p \in running :
        (Wrote(p) /\ ~AtThreshold(call[p].pre[logFile]))
        => /\ ~call[p].rotate
           /\ call[p].moved = {} /\ call[p].failed = {}
           /\ \A k \in Rotated : fs[k] = call[p].pre[k]
           /\ fs[logFile] = [ex |-> TRUE, data |-> call[p].pre[logFile].data \o <<Line(p)>>]

C3_Witness ==
    \E p \in running :
        /\ Wrote(p)
        /\ call[p].pre[logFile].ex
        /\ Size(call[p].pre[logFile]) = maxSize - 1
        /\ call[p].pre[logFile].data # <<>>
        /\ RotatedFiles(fs) # {}
        /\ Len(fs[logFile].data) = Len(call[p].pre[logFile].data) + 1

\* The records the program wrote appear in a file in the order of the calls.
InWriteOrder(data) ==
    \A j, k \in 1..Len(data) :
        (j < k /\ data[j].id > 0) => data[j].id < data[k].id

\* C4: each writeLog call whose append succeeds adds exactly one complete line
\* at the end of logFile, so the last line of logFile is the record of the
\* latest call and the lines are in the order of the calls.
C4_OneLinePerCallInOrder ==
    \A p \in running :
        Wrote(p)
        => /\ fs[logFile].ex
           /\ fs[logFile].data = call[p].after[logFile].data \o <<Line(p)>>
           /\ InWriteOrder(fs[logFile].data)

C4_Witness ==
    \E p \in running :
        /\ Wrote(p)
        /\ Len(fs[logFile].data) >= 3
        /\ \A j \in 1..Len(fs[logFile].data) : fs[logFile].data[j].id > 0

\* C5: a failure to open logFile, or to write the record to it, ends the
\* process in that call.
C5_ActiveFileFailureIsFatal ==
    \A p \in running :
        (call[p].opened = "failed" \/ call[p].wrote \in {"nothing", "short"})
        => pc[p] = "exit"

\* C6: a failed rename never ends the process and never stops the append; when
\* it is the rename of logFile that failed, logFile keeps its old content and
\* gets the new line too, and a call that finds logFile at or above maxSize
\* always tries the rotation again.
C6_RenameFailureIgnored ==
    \A p \in running :
        /\ ("open" \notin faults) => pc[p] # "exit"
        /\ (Wrote(p) /\ logFile \in call[p].failed)
           => fs[logFile].data = call[p].pre[logFile].data \o <<Line(p)>>
        /\ (Wrote(p) /\ call[p].failed # {})
           => fs[logFile].data[Len(fs[logFile].data)] = Line(p)
        /\ (pc[p] \in {"shift", "move", "open", "write"} \/ Returned(p))
           => (call[p].rotate <=> AtThreshold(call[p].pre[logFile]))

C6_Witness ==
    \E p \in running :
        /\ Wrote(p)
        /\ logFile \in call[p].failed
        /\ Size(call[p].pre[logFile]) > maxSize
        /\ \E j \in 1..Len(call[p].pre[logFile].data) : call[p].pre[logFile].data[j].id > 0

\* C7: starting with no rotated file, the rotated files that exist are among
\* logFile.1 .. logFile.maxFiles; with maxFiles <= 0 only logFile.1 is ever
\* made, and each rotation whose rename succeeds overwrites it.
KeptIdx == IF maxFiles >= 1 THEN 1..maxFiles ELSE {1}

C7_RetentionBound ==
    RotatedFiles(start) = {}
    => /\ RotatedFiles(fs) \subseteq KeptIdx
       /\ \A p \in running :
            (maxFiles <= 0 /\ RotateDone(p) /\ logFile \in call[p].moved)
            => fs[1] = call[p].pre[logFile]

C7_Witness ==
    \E p \in running :
        /\ RotatedFiles(start) = {}
        /\ maxFiles <= 0
        /\ RotateDone(p) /\ logFile \in call[p].moved
        /\ call[p].pre[1].ex
        /\ RotatedFiles(fs) = {1}

\* C8: nothing keeps two processes apart.  With two of them interleaved, both
\* can pass the size check on the same logFile and both rotate, and the second
\* then renames a fresh logFile, below maxSize, to logFile.1.  One process
\* alone always renames the very file it checked, which is at or above maxSize.
C8_RaceNeedsTwoWriters ==
    \A p \in running :
        logFile \in call[p].moved
        => /\ call[p].movedSz < maxSize => running = {1, 2}
           /\ running = {1} => call[p].movedSz = Size(call[p].seen)

C8_Witness ==
    \E p, q \in running :
        /\ p # q
        /\ call[p].rotate /\ call[q].rotate
        /\ call[p].seen = call[q].seen
        /\ logFile \in call[p].moved /\ logFile \in call[q].moved
        /\ call[p].movedSz >= maxSize
        /\ call[q].movedSz < maxSize

\* The content of logFile.n, ..., logFile.1, logFile, oldest first.
RECURSIVE Concat(_, _)
Concat(fsys, n) == IF n < 0 THEN <<>> ELSE fsys[n].data \o Concat(fsys, n - 1)

Clean == faults = {} /\ start = [k \in Idx |-> NoFile]

\* C9: with one writer, maxFiles >= 1, no failure and an empty directory at the
\* start, logFile.maxFiles, ..., logFile.1, logFile read in that order hold
\* consecutive records in write order, up to the latest one written.
C9_ContiguousSuffix ==
    (Clean /\ running = {1} /\ maxFiles >= 1)
    => LET c == Concat(fs, maxFiles) IN
       /\ \A j \in 1..Len(c) : c[j].nl /\ c[j].id = c[1].id + (j - 1)
       /\ c # <<>> => c[1].id >= 1 /\ c[Len(c)].id \in {nrec - 1, nrec}
       /\ Returned(1) => c # <<>> /\ c[Len(c)].id = nrec
       /\ \A k \in Idx : k > maxFiles => ~fs[k].ex

C9_Witness ==
    /\ Clean /\ running = {1} /\ maxFiles >= 1
    /\ Returned(1)
    /\ Concat(fs, maxFiles)[1].id > 1
    /\ \A k \in 0..maxFiles : fs[k].ex

====
